---- MODULE Spec2Model ----
(***************************************************************************)
(* RevyCode: the review orchestration pipeline.                            *)
(*                                                                         *)
(*   ReviewService.trigger_review     services/review_service.py           *)
(*   GitHubService                    services/github_service.py           *)
(*   PRAnalyzerAgent                  agents/pr_analyzer_agent.py          *)
(*   Review, AgentResult, AgentOutput models/review.py                     *)
(*                                                                         *)
(* Every invocation of trigger_review is one entry of Calls; its local     *)
(* variables are the per-call variables below, the Review collection of    *)
(* the store is the sequence reviews.  Python values are modelled by       *)
(* records of strings and numbers: None is the string "None", a dict is a  *)
(* record whose missing keys hold Absent, or (for the PR details, whose    *)
(* values no step looks at) the set of its keys.                           *)
(***************************************************************************)
EXTENDS Integers, Sequences, FiniteSets, TLC

\* Bounds of the model.
MaxCalls == 2
MaxFiles == 2
MaxIssues == 2

Calls == 1..MaxCalls

None == "None"
Absent == "<absent>"

(***************************************************************************)
(* GitHubService                                                           *)
(***************************************************************************)

\* The methods class GitHubService defines.
GitHubServiceMethods ==
    {"__init__", "get_pr_details", "get_pr_files", "post_review_comment",
     "post_inline_comment", "get_repository_info"}

\* The keys of the dict get_pr_details returns.
PrDetailsKeys ==
    {"pr_number", "pr_title", "pr_description", "pr_url", "pr_author",
     "pr_branch", "pr_base_branch", "commit_sha", "commit_message", "state",
     "created_at", "updated_at"}

\* What the provider does with one request: it answers, PyGithub raises a
\* GithubException (404, 403, 5xx), or the transport raises something else
\* (a timeout, a connection error).
ProviderOutcomes == {"ok", "GithubException", "Timeout"}

\* get_pr_details: the dict on success; a GithubException is re-raised as a
\* plain Exception, any other exception leaves the method as it is.
get_pr_details(outcome) ==
    IF outcome = "ok" THEN [ok |-> TRUE, keys |-> PrDetailsKeys, exc |-> None]
    ELSE IF outcome = "GithubException"
         THEN [ok |-> FALSE, keys |-> {}, exc |-> "Exception"]
         ELSE [ok |-> FALSE, keys |-> {}, exc |-> outcome]

\* The changed files the provider can list: a file is its status and its
\* patch (None for a binary file, "" for an empty diff); its filename is
\* its place in the list.
FileKinds ==
    { [status |-> "modified", patch |-> "p"],
      [status |-> "removed",  patch |-> "p"],
      [status |-> "added",    patch |-> None],
      [status |-> "modified", patch |-> ""] }

FileLists == UNION { [1..n -> FileKinds] : n \in 0..MaxFiles }

\* get_pr_files: the list of file dicts, the same exception handling.
get_pr_files(outcome, files) ==
    IF outcome = "ok" THEN [ok |-> TRUE, files |-> files, exc |-> None]
    ELSE IF outcome = "GithubException"
         THEN [ok |-> FALSE, files |-> <<>>, exc |-> "Exception"]
         ELSE [ok |-> FALSE, files |-> <<>>, exc |-> outcome]

(***************************************************************************)
(* The analysis capability (model.generate_content) and its responses      *)
(***************************************************************************)

\* One entry of an "issues" array as the capability may write it: a dict
\* with any of the keys line, severity, category, description, or a JSON
\* value that is no dict at all.
Issue(isdict, line, severity, category, description) ==
    [isdict |-> isdict, line |-> line, severity |-> severity,
     category |-> category, description |-> description]

IssueUniverse ==
    { Issue(TRUE, "3", "high", "security", "d"),
      Issue(TRUE, "7", "high", "bug", "d"),
      Issue(TRUE, "3", "medium", "security", "d"),
      Issue(TRUE, Absent, "low", "style", "d"),
      Issue(TRUE, "7", "critical", "security", "d"),
      Issue(TRUE, "3", Absent, "bug", "d"),
      Issue(FALSE, Absent, Absent, Absent, Absent) }

IssueListsUpTo(n) == UNION { [1..k -> IssueUniverse] : k \in 0..n }

\* The value of the "issues" member: a JSON array, a non-empty JSON string,
\* or null.
IssuesValuesUpTo(n) ==
    { [type |-> "list", items |-> l] : l \in IssueListsUpTo(n) }
    \cup { [type |-> "str", items |-> <<>>], [type |-> "null", items |-> <<>>] }

\* The body of a response: text that is no JSON, a JSON array, or a JSON
\* object with or without an "issues" member.
BodiesUpTo(n) ==
    { [json |-> FALSE, isobj |-> FALSE, has_issues |-> FALSE,
       issues |-> [type |-> "null", items |-> <<>>]],
      [json |-> TRUE, isobj |-> FALSE, has_issues |-> FALSE,
       issues |-> [type |-> "null", items |-> <<>>]],
      [json |-> TRUE, isobj |-> TRUE, has_issues |-> FALSE,
       issues |-> [type |-> "null", items |-> <<>>]] }
    \cup { [json |-> TRUE, isobj |-> TRUE, has_issues |-> TRUE, issues |-> v] :
           v \in IssuesValuesUpTo(n) }

\* The code-fence markers: three backquotes followed by json (seven
\* characters), and three backquotes alone.
FenceJson == "<fence>json"
Fence == "<fence>"

\* response.text: the body, what stands before and after it, surrounding
\* white space, and whether the last three characters of the body are cut.
TextsUpTo(n) ==
    [ws : BOOLEAN, open : {"", FenceJson, Fence}, body : BodiesUpTo(n),
     close : {"", Fence}, cut : {FALSE}]

NoText ==
    [ws |-> FALSE, open |-> "", close |-> "", cut |-> FALSE,
     body |-> [json |-> FALSE, isobj |-> FALSE, has_issues |-> FALSE,
               issues |-> [type |-> "null", items |-> <<>>]]]

\* generate_content either raises or returns a response with a text.
ResponsesUpTo(n) ==
    { [raises |-> TRUE, text |-> NoText] }
    \cup { [raises |-> FALSE, text |-> t] : t \in TextsUpTo(n) }

\* str.strip()
strip(text) == [text EXCEPT !.ws = FALSE]

\* text.startswith(FenceJson)
startswith_json_fence(text) == ~text.ws /\ text.open = FenceJson

\* text[7:-3]: drops the seven characters of the opening marker and the last
\* three characters, which are the closing marker when there is one and the
\* end of the body when there is none.
slice_7_minus_3(text) ==
    IF text.close = Fence
    THEN [text EXCEPT !.open = "", !.close = ""]
    ELSE [text EXCEPT !.open = "", !.cut = TRUE]

\* json.loads: a value when the text is one JSON document and nothing else,
\* JSONDecodeError otherwise.
json_loads(text) ==
    IF text.open = "" /\ text.close = "" /\ ~text.cut /\ text.body.json
    THEN [ok |-> TRUE, data |-> text.body]
    ELSE [ok |-> FALSE, data |-> text.body]

\* Python truth of the value of data.get("issues").
Truthy(v) == (v.type = "list" /\ v.items # <<>>) \/ v.type = "str"

NoIssues == [type |-> "null", items |-> <<>>]

\* Lines 63-83 with a slip: the outer "except Exception" is missing, so the
\* AttributeError of data.get on a JSON value that is no object leaves
\* analyze_files, as does an error of the capability.
parse_response_without_outer_except(resp) ==
    IF resp.raises THEN [append |-> FALSE, issues |-> NoIssues, exc |-> "Exception"]
    ELSE LET stripped == strip(resp.text)
             text == IF startswith_json_fence(stripped)
                     THEN slice_7_minus_3(stripped) ELSE stripped
             loaded == json_loads(text)
         IN IF ~loaded.ok THEN [append |-> FALSE, issues |-> NoIssues, exc |-> None]
            ELSE IF ~loaded.data.isobj
                 THEN [append |-> FALSE, issues |-> NoIssues, exc |-> "AttributeError"]
            ELSE IF loaded.data.has_issues /\ Truthy(loaded.data.issues)
                 THEN [append |-> TRUE, issues |-> loaded.data.issues, exc |-> None]
                 ELSE [append |-> FALSE, issues |-> NoIssues, exc |-> None]

\* analyze_files, one file that is not skipped: whether an entry is appended
\* to results, its "issues", and the exception that leaves analyze_files
\* (none: a raising capability and a data.get on a value that is no dict end
\* in the outer except, a JSONDecodeError in the inner one; both only print).
parse_response(resp) ==
    IF resp.raises THEN [append |-> FALSE, issues |-> NoIssues, exc |-> None]
    ELSE LET stripped == strip(resp.text)
             text == IF startswith_json_fence(stripped)
                     THEN slice_7_minus_3(stripped) ELSE stripped
             loaded == json_loads(text)
         IN IF ~loaded.ok THEN [append |-> FALSE, issues |-> NoIssues, exc |-> None]
            ELSE IF ~loaded.data.isobj
                 THEN [append |-> FALSE, issues |-> NoIssues, exc |-> None]
            ELSE IF loaded.data.has_issues /\ Truthy(loaded.data.issues)
                 THEN [append |-> TRUE, issues |-> loaded.data.issues, exc |-> None]
                 ELSE [append |-> FALSE, issues |-> NoIssues, exc |-> None]

\* Lines 38-39 with a slip: only the status is tested, a file without
\* patch is sent to the capability.
skipped_only_removed(file) == file.status = "removed"

\* analyze_files skips a file that was removed or has no patch.
skipped(file) == file.status = "removed" \/ file.patch = None \/ file.patch = ""

(***************************************************************************)
(* trigger_review: the tally and the Review document (lines 59-139)        *)
(***************************************************************************)

\* The keys of pr_details that trigger_review reads: lines 48-55 for the
\* agent, lines 117-125 for the Review.
AgentDetailKeys == {"number", "title", "body", "user", "head", "base"}
ReviewDetailKeys == AgentDetailKeys \cup {"html_url"}

\* What "for issue in file_result.get('issues', [])" iterates over: the
\* entries of a list, the characters of a string (none of them a dict).
ItemsOf(v) ==
    IF v.type = "list" THEN v.items
    ELSE IF v.type = "str" THEN << Issue(FALSE, Absent, Absent, Absent, Absent) >>
    ELSE << >>

\* The (filename, issue) pairs the two loops of lines 67-68 visit, in order.
RECURSIVE Entries(_)
Entries(results) ==
    IF results = << >> THEN << >>
    ELSE LET items == ItemsOf(Head(results).issues)
         IN [i \in 1..Len(items) |->
                [file |-> Head(results).filename, issue |-> items[i]]]
            \o Entries(Tail(results))

\* The exception lines 69-77 raise on one issue, or None: issue.get on a
\* value that is no dict, issue['severity'], issue['category'] and
\* issue['description'] on a dict without that key.
IssueError(issue) ==
    IF ~issue.isdict THEN "AttributeError"
    ELSE IF issue.severity = Absent \/ issue.category = Absent
            \/ issue.description = Absent
         THEN "KeyError"
         ELSE None

RECURSIVE FirstError(_)
FirstError(entries) ==
    IF entries = << >> THEN None
    ELSE IF IssueError(Head(entries).issue) # None
         THEN IssueError(Head(entries).issue)
         ELSE FirstError(Tail(entries))

\* Lines 69-75 with a slip: the issue's line is not copied into the row.
IssueRow_without_line(e) ==
    [file |-> e.file,
     line |-> None,
     severity |-> e.issue.severity,
     category |-> e.issue.category,
     message |-> e.issue.description]

\* The dict appended to all_issues for one issue (lines 69-75).
IssueRow(e) ==
    [file |-> e.file,
     line |-> IF e.issue.line = Absent THEN None ELSE e.issue.line,
     severity |-> e.issue.severity,
     category |-> e.issue.category,
     message |-> e.issue.description]

all_issues_of(results) ==
    LET es == Entries(results) IN [i \in 1..Len(es) |-> IssueRow(es[i])]

\* The keys severity_counts can get: the three it starts with and every
\* other severity string an issue may carry.
SeverityKeys ==
    {"high", "medium", "low"} \cup ({i.severity : i \in IssueUniverse} \ {Absent})

\* severity_counts with a slip: a severity that is none of the three keys
\* is counted as low.
RECURSIVE severity_counts_default_low(_)
severity_counts_default_low(all_issues) ==
    IF all_issues = << >> THEN [s \in SeverityKeys |-> 0]
    ELSE LET front == SubSeq(all_issues, 1, Len(all_issues) - 1)
             severity == all_issues[Len(all_issues)].severity
             key == IF severity \in {"high", "medium", "low"} THEN severity ELSE "low"
         IN [severity_counts_default_low(front) EXCEPT ![key] = @ + 1]

\* severity_counts after the loops: lines 65, 76 and 77.  A key the dict
\* does not hold reads as 0, as severity_counts.get(key, 0) does.
RECURSIVE severity_counts(_)
severity_counts(all_issues) ==
    IF all_issues = << >> THEN [s \in SeverityKeys |-> 0]
    ELSE LET front == SubSeq(all_issues, 1, Len(all_issues) - 1)
             severity == all_issues[Len(all_issues)].severity
         IN [severity_counts(front) EXCEPT ![severity] = @ + 1]

\* Line 133 with a slip: every security issue counts as critical.
critical_issues_any_security(all_issues) ==
    Len(SelectSeq(all_issues, LAMBDA i : i.category = "security"))

\* Line 133 with a slip: only the issues of the first file of the list are
\* looked at.
critical_issues_first_file_only(all_issues) ==
    Len(SelectSeq(all_issues,
                  LAMBDA i : i.severity = "high" /\ i.category = "security"
                             /\ i.file = 1))

\* Line 133.
critical_issues_of(all_issues) ==
    Len(SelectSeq(all_issues,
                  LAMBDA i : i.severity = "high" /\ i.category = "security"))

\* Line 132.
issues_found_of(all_issues) == Len(all_issues)

\* Line 83 with a slip: only the security issues of severity high are kept.
vulnerabilities_high_only(all_issues) ==
    SelectSeq(all_issues, LAMBDA i : i.category = "security" /\ i.severity = "high")

\* Line 83.
vulnerabilities_of(all_issues) ==
    SelectSeq(all_issues, LAMBDA i : i.category = "security")

\* final_review[:500] (line 81): a text is its kind and its length.
SummaryLimit == 500
summary_of(final_review) ==
    [kind |-> final_review.kind,
     len |-> IF final_review.len > SummaryLimit THEN SummaryLimit
             ELSE final_review.len]

\* Line 128 with a slip: overall_status is not passed, and the Review keeps
\* the default of models/review.py.
overall_status_default == "pending"

\* Line 128: the Review is built with overall_status "completed".
overall_status_passed == "completed"

\* Lines 80-98 and 114-139: the Review document, not yet inserted (id 0).
\* review_trigger is not passed and keeps the default of models/review.py.
NewReview(files, results, final_review) ==
    LET all_issues == all_issues_of(results)
        counts == severity_counts(all_issues)
    IN [id |-> 0,
        total_files_changed |-> Len(files),
        agent_results |->
            << [agent_name |-> "pr_analyzer",
                status |-> "completed",
                output |-> [summary |-> summary_of(final_review),
                            code_quality_issues |-> all_issues,
                            vulnerabilities |-> vulnerabilities_of(all_issues)],
                posted_to_github |-> FALSE,
                github_comment_id |-> None] >>,
        overall_status |-> overall_status_passed,
        issues_found |-> issues_found_of(all_issues),
        critical_issues |-> critical_issues_of(all_issues),
        high_issues |-> counts["high"],
        medium_issues |-> counts["medium"],
        low_issues |-> counts["low"],
        review_trigger |-> "webhook",
        completed_at |-> "end_time"]

(***************************************************************************)
(* _format_review_comment (lines 178-224)                                  *)
(***************************************************************************)

\* Line 201: the detailed list shows the first ten issues.
DetailLimit == 10

\* The keys of issues_by_file in the order the dict got them: the files of
\* the rows in the order of their first row.
RECURSIVE FilesOf(_)
FilesOf(rows) ==
    IF rows = << >> THEN << >>
    ELSE << Head(rows).file >>
         \o FilesOf(SelectSeq(Tail(rows), LAMBDA r : r.file # Head(rows).file))

\* Line 210: the mark of a severity, white for one the dict does not know.
severity_emoji(severity) ==
    CASE severity = "high" -> "red"
      [] severity = "medium" -> "orange"
      [] severity = "low" -> "yellow"
      [] OTHER -> "white"

\* Line 211: one line of the detailed list.  Every row has the key line, so
\* the default N/A is never used and an absent line prints as None.
issue_line(row) ==
    [emoji |-> severity_emoji(row.severity), line |-> row.line,
     message |-> row.message]

\* The comment as the parts it is made of, in order: the summary, the
\* number of issues, the counts by severity and the detailed list grouped
\* by file when there are issues, the no-issues note when there are none,
\* and the footer with the processing time of the Review.
_format_review_comment(r) ==
    LET agent_output == r.agent_results[1].output
        n == Len(agent_output.code_quality_issues)
        shown == SubSeq(agent_output.code_quality_issues, 1,
                        IF n > DetailLimit THEN DetailLimit ELSE n)
        files == FilesOf(shown)
    IN [summary |-> agent_output.summary,
        issues_found |-> r.issues_found,
        by_severity |-> IF r.issues_found > 0
                        THEN << r.high_issues, r.medium_issues, r.low_issues >>
                        ELSE << >>,
        detailed |->
            IF r.issues_found > 0 /\ agent_output.code_quality_issues # << >>
            THEN [k \in 1..Len(files) |->
                    LET mine == SelectSeq(shown, LAMBDA x : x.file = files[k])
                    IN [file |-> files[k],
                        issues |-> [j \in 1..Len(mine) |-> issue_line(mine[j])]]]
            ELSE << >>,
        no_issues_note |-> ~(r.issues_found > 0),
        footer |-> "Analyzed in processing_time_total_ms/1000 s"]

(***************************************************************************)
(* State                                                                   *)
(***************************************************************************)

VARIABLES
    request,          \* what started each call: the route, and what it read
    response,         \* how the route or the background task ended
    probe,            \* one capability response and what analyze_files makes of it
    comment_body,     \* the comments _format_review_comment has returned, in order
    pc,               \* where each call of trigger_review stands
    post_to_github,   \* its argument post_to_github
    comment_api,      \* whether the provider accepts or rejects a comment on a PR
    pr_details,       \* the keys of its local pr_details
    pr_files,         \* its local pr_files
    file_idx,         \* analyze_files: the file the loop is at
    analysis_results, \* AgentState.analysis_results
    final_review,     \* AgentState.final_review
    review,           \* its local review: << >> or one Review document
    result,           \* what the call gave its caller
    ext,              \* the external operations the call has made, in order
    reviews,          \* the store's Review collection; a document's id is its place
    review_call       \* for each stored document, the call that inserted it

vars ==
    << request, response, probe, comment_body, pc, post_to_github, comment_api,
       pr_details, pr_files, file_idx, analysis_results, final_review, review,
       result, ext, reviews, review_call >>

NoResult == [kind |-> "none", exc |-> None]
Returned == [kind |-> "returned", exc |-> None]
Raised(e) == [kind |-> "raised", exc |-> e]

EmptyText == [kind |-> "", len |-> 0]

Ext(op, ok, arg) == [op |-> op, ok |-> ok, arg |-> arg]

\* A call that no route has started; a route that has not ended.
NoRequest ==
    [route |-> "none", action |-> None, repo |-> "unread", user |-> "unread",
     auto_review |-> "unread"]
NoResponse == [status |-> "none", detail |-> None]

\* No response of the capability is under examination.
NoProbe ==
    [stage |-> "none", resp |-> [raises |-> TRUE, text |-> NoText],
     out |-> [append |-> FALSE, issues |-> NoIssues, exc |-> None]]

\* No call has started, the store holds no Review; the provider's comment
\* API is in either state.
Init ==
    /\ request = [c \in Calls |-> NoRequest]
    /\ response = [c \in Calls |-> NoResponse]
    /\ probe = NoProbe
    /\ comment_body = << >>
    /\ pc = [c \in Calls |-> "idle"]
    /\ post_to_github = [c \in Calls |-> TRUE]
    /\ comment_api \in {"accepts", "rejects"}
    /\ pr_details = [c \in Calls |-> {}]
    /\ pr_files = [c \in Calls |-> << >>]
    /\ file_idx = [c \in Calls |-> 1]
    /\ analysis_results = [c \in Calls |-> << >>]
    /\ final_review = [c \in Calls |-> EmptyText]
    /\ review = [c \in Calls |-> << >>]
    /\ result = [c \in Calls |-> NoResult]
    /\ ext = [c \in Calls |-> << >>]
    /\ reviews = << >>
    /\ review_call = << >>

\* An exception leaves trigger_review: the call ends, its locals are gone.
Raise(c, e) ==
    /\ pc' = [pc EXCEPT ![c] = "done"]
    /\ result' = [result EXCEPT ![c] = Raised(e)]
    /\ pr_details' = [pr_details EXCEPT ![c] = {}]
    /\ pr_files' = [pr_files EXCEPT ![c] = << >>]
    /\ file_idx' = [file_idx EXCEPT ![c] = 1]
    /\ analysis_results' = [analysis_results EXCEPT ![c] = << >>]
    /\ final_review' = [final_review EXCEPT ![c] = EmptyText]
    /\ review' = [review EXCEPT ![c] = << >>]

(***************************************************************************)
(* ReviewService.trigger_review, step by step                              *)
(***************************************************************************)

\* A caller awaits trigger_review(repo, pr_number, user, post_to_github);
\* line 35 builds the GitHubService (no request is sent yet).
trigger_review(c, post) ==
    /\ pc[c] = "idle"
    /\ post_to_github' = [post_to_github EXCEPT ![c] = post]
    /\ pc' = [pc EXCEPT ![c] = "get_pr_details"]
    /\ UNCHANGED << probe, comment_body, comment_api, pr_details, pr_files, file_idx,
                    analysis_results, final_review, review, result, ext,
                    reviews, review_call >>

\* Line 38 with a slip: a failed fetch leaves a Review with overall_status
\* failed in the store before the exception leaves trigger_review.
GetPrDetails_persists_failed(c) ==
    /\ pc[c] = "get_pr_details"
    /\ \E outcome \in ProviderOutcomes :
          LET r == get_pr_details(outcome)
          IN /\ ext' = [ext EXCEPT ![c] = Append(@, Ext("get_pr_details", r.ok, 0))]
             /\ IF r.ok
                THEN /\ pr_details' = [pr_details EXCEPT ![c] = r.keys]
                     /\ pc' = [pc EXCEPT ![c] = "get_pr_files"]
                     /\ UNCHANGED << pr_files, file_idx, analysis_results,
                                     final_review, review, result, reviews,
                                     review_call >>
                ELSE /\ Raise(c, r.exc)
                     /\ reviews' =
                           Append(reviews,
                                  [NewReview(<< >>, << >>, EmptyText) EXCEPT
                                      !.id = Len(reviews) + 1,
                                      !.overall_status = "failed"])
                     /\ review_call' = Append(review_call, c)
    /\ UNCHANGED << request, response, probe, comment_body, post_to_github, comment_api >>

\* Line 38.
GetPrDetails(c) ==
    /\ pc[c] = "get_pr_details"
    /\ \E outcome \in ProviderOutcomes :
          LET r == get_pr_details(outcome)
          IN /\ ext' = [ext EXCEPT ![c] = Append(@, Ext("get_pr_details", r.ok, 0))]
             /\ IF r.ok
                THEN /\ pr_details' = [pr_details EXCEPT ![c] = r.keys]
                     /\ pc' = [pc EXCEPT ![c] = "get_pr_files"]
                     /\ UNCHANGED << pr_files, file_idx, analysis_results,
                                     final_review, review, result >>
                ELSE Raise(c, r.exc)
    /\ UNCHANGED << request, response, probe, comment_body, post_to_github, comment_api, reviews, review_call >>

\* Lines 39-57, which run without suspension: the file list is fetched,
\* then the argument dict of agent.analyze is built from
\* pr_details["number"], ["title"], ["body"], ["user"], ["head"] and
\* ["base"]; a key that pr_details does not hold is a KeyError that leaves
\* trigger_review before the agent is called.  Otherwise the workflow starts
\* at analyze_files with empty analysis_results and final_review.
GetPrFiles(c) ==
    /\ pc[c] = "get_pr_files"
    /\ \E outcome \in ProviderOutcomes :
          /\ ext' = [ext EXCEPT ![c] =
                        Append(@, Ext("get_pr_files", outcome = "ok", 0))]
          /\ IF outcome # "ok" THEN Raise(c, get_pr_files(outcome, << >>).exc)
             ELSE IF ~(AgentDetailKeys \subseteq pr_details[c])
                  THEN Raise(c, "KeyError")
                  ELSE \E files \in FileLists :
                          /\ pr_files' = [pr_files EXCEPT ![c] =
                                             get_pr_files(outcome, files).files]
                          /\ pc' = [pc EXCEPT ![c] = "analyze_files"]
                          /\ file_idx' = [file_idx EXCEPT ![c] = 1]
                          /\ analysis_results' = [analysis_results EXCEPT ![c] = << >>]
                          /\ final_review' = [final_review EXCEPT ![c] = EmptyText]
                          /\ UNCHANGED << pr_details, review, result >>
    /\ UNCHANGED << request, response, probe, comment_body, post_to_github, comment_api,
                    reviews, review_call >>

(***************************************************************************)
(* PRAnalyzerAgent: analyze_files, then summarize_review                   *)
(***************************************************************************)

\* The issues the capability has returned so far in this call; the model
\* lets it return MaxIssues in all.
RECURSIVE IssuesIn(_)
IssuesIn(results) ==
    IF results = << >> THEN 0
    ELSE Len(ItemsOf(Head(results).issues)) + IssuesIn(Tail(results))

\* analyze_files with a slip: the try stands around the loop, not inside
\* it, so the first failing request ends the loop and the files after it
\* are never analysed.
AnalyzeFile_stops_at_failure(c) ==
    /\ pc[c] = "analyze_files"
    /\ file_idx[c] <= Len(pr_files[c])
    /\ LET file == pr_files[c][file_idx[c]]
       IN IF skipped(file)
          THEN /\ file_idx' = [file_idx EXCEPT ![c] = @ + 1]
               /\ UNCHANGED << analysis_results, ext >>
          ELSE \E resp \in ResponsesUpTo(MaxIssues - IssuesIn(analysis_results[c])) :
                  LET p == parse_response(resp)
                  IN /\ analysis_results' =
                           [analysis_results EXCEPT ![c] =
                               IF p.append
                               THEN Append(@, [filename |-> file_idx[c],
                                               issues |-> p.issues])
                               ELSE @]
                     /\ ext' = [ext EXCEPT ![c] =
                                   Append(@, Ext("generate_content", ~resp.raises,
                                                 file_idx[c]))]
                     /\ file_idx' = [file_idx EXCEPT ![c] =
                                        IF resp.raises THEN Len(pr_files[c]) + 1
                                        ELSE @ + 1]
    /\ UNCHANGED << request, response, probe, comment_body, pc, post_to_github, comment_api,
                    pr_details, pr_files, final_review, review, result, reviews,
                    review_call >>

\* analyze_files with a slip: a request that failed is made once more
\* before the loop moves on.
AnalyzeFile_asks_again(c) ==
    /\ pc[c] = "analyze_files"
    /\ file_idx[c] <= Len(pr_files[c])
    /\ LET file == pr_files[c][file_idx[c]]
       IN IF skipped(file)
          THEN /\ file_idx' = [file_idx EXCEPT ![c] = @ + 1]
               /\ UNCHANGED << analysis_results, ext >>
          ELSE \E resp \in ResponsesUpTo(MaxIssues - IssuesIn(analysis_results[c])) :
                  LET p == parse_response(resp)
                      first == \A i \in 1..Len(ext[c]) :
                                  ~(ext[c][i].op = "generate_content"
                                    /\ ext[c][i].arg = file_idx[c])
                  IN /\ analysis_results' =
                           [analysis_results EXCEPT ![c] =
                               IF p.append
                               THEN Append(@, [filename |-> file_idx[c],
                                               issues |-> p.issues])
                               ELSE @]
                     /\ ext' = [ext EXCEPT ![c] =
                                   Append(@, Ext("generate_content", ~resp.raises,
                                                 file_idx[c]))]
                     /\ file_idx' = [file_idx EXCEPT ![c] =
                                        IF resp.raises /\ first THEN @ ELSE @ + 1]
    /\ UNCHANGED << request, response, probe, comment_body, pc, post_to_github,
                    comment_api, pr_details, pr_files, final_review, review,
                    result, reviews, review_call >>

\* analyze_files with a slip: the loop is a while loop over an index, and
\* the "continue" of a skipped file leaves the index where it is.
AnalyzeFile_skip_keeps_index(c) ==
    /\ pc[c] = "analyze_files"
    /\ file_idx[c] <= Len(pr_files[c])
    /\ LET file == pr_files[c][file_idx[c]]
       IN IF skipped(file)
          THEN UNCHANGED << file_idx, pc, pr_details, pr_files, analysis_results,
                            final_review, review, result, ext >>
          ELSE \E resp \in ResponsesUpTo(MaxIssues - IssuesIn(analysis_results[c])) :
                  LET p == parse_response(resp)
                  IN /\ ext' = [ext EXCEPT ![c] =
                                   Append(@, Ext("generate_content", ~resp.raises,
                                                 file_idx[c]))]
                     /\ analysis_results' =
                           [analysis_results EXCEPT ![c] =
                               IF p.append
                               THEN Append(@, [filename |-> file_idx[c],
                                               issues |-> p.issues])
                               ELSE @]
                     /\ file_idx' = [file_idx EXCEPT ![c] = @ + 1]
                     /\ UNCHANGED << pc, pr_details, pr_files, final_review,
                                     review, result >>
    /\ UNCHANGED << request, response, probe, comment_body, post_to_github, comment_api,
                    reviews, review_call >>

\* analyze_files, one turn of "for file in files": a removed file and a file
\* without patch are skipped; for any other file the capability is asked
\* once and an entry is appended when the answer holds issues.
AnalyzeFile(c) ==
    /\ pc[c] = "analyze_files"
    /\ file_idx[c] <= Len(pr_files[c])
    /\ LET file == pr_files[c][file_idx[c]]
       IN IF skipped(file)
          THEN /\ file_idx' = [file_idx EXCEPT ![c] = @ + 1]
               /\ UNCHANGED << pc, pr_details, pr_files, analysis_results,
                               final_review, review, result, ext >>
          ELSE \E resp \in ResponsesUpTo(MaxIssues - IssuesIn(analysis_results[c])) :
                  LET p == parse_response(resp)
                  IN /\ ext' = [ext EXCEPT ![c] =
                                   Append(@, Ext("generate_content", ~resp.raises,
                                                 file_idx[c]))]
                     /\ IF p.exc # None THEN Raise(c, p.exc)
                        ELSE /\ analysis_results' =
                                   [analysis_results EXCEPT ![c] =
                                       IF p.append
                                       THEN Append(@, [filename |-> file_idx[c],
                                                       issues |-> p.issues])
                                       ELSE @]
                             /\ file_idx' = [file_idx EXCEPT ![c] = @ + 1]
                             /\ UNCHANGED << pc, pr_details, pr_files, final_review,
                                             review, result >>
    /\ UNCHANGED << request, response, probe, comment_body, post_to_github, comment_api,
                    reviews, review_call >>

\* analyze_files returns {"analysis_results": results}; the workflow's only
\* edge from it leads to summarize_review.
AnalyzeFilesReturn(c) ==
    /\ pc[c] = "analyze_files"
    /\ file_idx[c] > Len(pr_files[c])
    /\ pc' = [pc EXCEPT ![c] = "summarize_review"]
    /\ UNCHANGED << request, response, probe, comment_body, post_to_github, comment_api, pr_details, pr_files, file_idx,
                    analysis_results, final_review, review, result, ext,
                    reviews, review_call >>

\* The texts summarize_review can produce: the fixed message, the text of
\* the capability's response (short, or longer than 500 characters), or the
\* description of the error.
FixedSummary == [kind |-> "No major issues found in the analyzed files.", len |-> 44]
SummaryTexts ==
    { [raises |-> FALSE, text |-> [kind |-> "response.text", len |-> 120]],
      [raises |-> FALSE, text |-> [kind |-> "response.text", len |-> 800]],
      [raises |-> TRUE, text |-> [kind |-> "Error generating summary: e", len |-> 40]] }

\* summarize_review with a slip: the test of lines 89-90 is missing, and
\* the capability is asked for a summary of no results too.
SummarizeReview_always_asks(c) ==
    /\ pc[c] = "summarize_review"
    /\ \E o \in SummaryTexts :
          /\ final_review' = [final_review EXCEPT ![c] = o.text]
          /\ ext' = [ext EXCEPT ![c] =
                        Append(@, Ext("generate_content", ~o.raises, 0))]
    /\ pc' = [pc EXCEPT ![c] = "build_review"]
    /\ UNCHANGED << request, response, probe, comment_body, post_to_github, comment_api,
                    pr_details, pr_files, file_idx, analysis_results, review,
                    result, reviews, review_call >>

\* summarize_review with a slip: no try around the request of line 101, so
\* an error of the capability leaves the workflow and trigger_review.
SummarizeReview_without_try(c) ==
    /\ pc[c] = "summarize_review"
    /\ IF analysis_results[c] = << >>
       THEN /\ final_review' = [final_review EXCEPT ![c] = FixedSummary]
            /\ pc' = [pc EXCEPT ![c] = "build_review"]
            /\ UNCHANGED << ext, pr_details, pr_files, file_idx, analysis_results,
                            review, result >>
       ELSE \E o \in SummaryTexts :
               /\ ext' = [ext EXCEPT ![c] =
                             Append(@, Ext("generate_content", ~o.raises, 0))]
               /\ IF o.raises THEN Raise(c, "Exception")
                  ELSE /\ final_review' = [final_review EXCEPT ![c] = o.text]
                       /\ pc' = [pc EXCEPT ![c] = "build_review"]
                       /\ UNCHANGED << pr_details, pr_files, file_idx,
                                       analysis_results, review, result >>
    /\ UNCHANGED << request, response, probe, comment_body, post_to_github, comment_api,
                    reviews, review_call >>

\* summarize_review, and the workflow's end: with no results the fixed
\* message and no request; otherwise one request, whose failure becomes
\* the text of final_review.
SummarizeReview(c) ==
    /\ pc[c] = "summarize_review"
    /\ IF analysis_results[c] = << >>
       THEN /\ final_review' = [final_review EXCEPT ![c] = FixedSummary]
            /\ UNCHANGED ext
       ELSE \E o \in SummaryTexts :
               /\ final_review' = [final_review EXCEPT ![c] = o.text]
               /\ ext' = [ext EXCEPT ![c] =
                             Append(@, Ext("generate_content", ~o.raises, 0))]
    /\ pc' = [pc EXCEPT ![c] = "build_review"]
    /\ UNCHANGED << request, response, probe, comment_body, post_to_github, comment_api, pr_details, pr_files, file_idx,
                    analysis_results, review, result, reviews, review_call >>

(***************************************************************************)
(* trigger_review after the agent: tally, Review, insert, post-back        *)
(***************************************************************************)

\* Lines 59-139 with a slip: the comment is posted as soon as the Review is
\* built, before it is inserted.
BuildReview_posts_first(c) ==
    /\ pc[c] = "build_review"
    /\ LET err == FirstError(Entries(analysis_results[c]))
       IN IF err # None THEN Raise(c, err) /\ UNCHANGED ext
          ELSE /\ review' = [review EXCEPT ![c] =
                                << NewReview(pr_files[c], analysis_results[c],
                                             final_review[c]) >>]
               /\ ext' = [ext EXCEPT ![c] =
                             IF post_to_github[c]
                             THEN Append(@, Ext("post_comment", FALSE, 0))
                             ELSE @]
               /\ pc' = [pc EXCEPT ![c] = "insert"]
               /\ UNCHANGED << pr_details, pr_files, file_idx, analysis_results,
                               final_review, result >>
    /\ UNCHANGED << request, response, probe, comment_body, post_to_github, comment_api, reviews, review_call >>

\* Lines 59-139.  The loops of lines 67-77 raise on the first issue that is
\* no dict or lacks a key; building the Review reads pr_details again.
BuildReview(c) ==
    /\ pc[c] = "build_review"
    /\ LET err == FirstError(Entries(analysis_results[c]))
       IN IF err # None THEN Raise(c, err)
          ELSE IF ~(ReviewDetailKeys \subseteq pr_details[c]) THEN Raise(c, "KeyError")
          ELSE /\ review' = [review EXCEPT ![c] =
                                << NewReview(pr_files[c], analysis_results[c],
                                             final_review[c]) >>]
               /\ pc' = [pc EXCEPT ![c] = "insert"]
               /\ UNCHANGED << pr_details, pr_files, file_idx, analysis_results,
                               final_review, result >>
    /\ UNCHANGED << request, response, probe, comment_body, post_to_github, comment_api, ext, reviews, review_call >>

\* Line 142 with a slip: a failed write is swallowed, and the call goes on
\* to the post-back and the return with the Review it has built.
Insert_swallows_failure(c) ==
    /\ pc[c] = "insert"
    /\ \E outcome \in {"ok", "StoreError"} :
          /\ ext' = [ext EXCEPT ![c] = Append(@, Ext("insert", outcome = "ok", 0))]
          /\ IF outcome = "ok"
             THEN LET doc == [review[c][1] EXCEPT !.id = Len(reviews) + 1]
                  IN /\ reviews' = Append(reviews, doc)
                     /\ review_call' = Append(review_call, c)
                     /\ review' = [review EXCEPT ![c] = << doc >>]
             ELSE UNCHANGED << reviews, review_call, review >>
          /\ IF post_to_github[c]
             THEN /\ pc' = [pc EXCEPT ![c] = "post_review_to_github"]
                  /\ UNCHANGED result
             ELSE /\ pc' = [pc EXCEPT ![c] = "done"]
                  /\ result' = [result EXCEPT ![c] = Returned]
          /\ UNCHANGED << pr_details, pr_files, file_idx, analysis_results,
                          final_review >>
    /\ UNCHANGED << request, response, probe, comment_body, post_to_github, comment_api >>

\* Line 142 with a slip: the Review is written under the key of its
\* repository and PR, so a second Review for the same PR takes the place of
\* the first.
Insert_replaces_review_of_pr(c) ==
    /\ pc[c] = "insert"
    /\ \E outcome \in {"ok", "StoreError"} :
          /\ ext' = [ext EXCEPT ![c] = Append(@, Ext("insert", outcome = "ok", 0))]
          /\ IF outcome = "ok"
             THEN LET doc == [review[c][1] EXCEPT !.id = 1]
                  IN /\ reviews' = << doc >>
                     /\ review_call' = << c >>
                     /\ review' = [review EXCEPT ![c] = << doc >>]
                     /\ IF post_to_github[c]
                        THEN /\ pc' = [pc EXCEPT ![c] = "post_review_to_github"]
                             /\ UNCHANGED result
                        ELSE /\ pc' = [pc EXCEPT ![c] = "done"]
                             /\ result' = [result EXCEPT ![c] = Returned]
                     /\ UNCHANGED << pr_details, pr_files, file_idx,
                                     analysis_results, final_review >>
             ELSE /\ Raise(c, outcome)
                  /\ UNCHANGED << reviews, review_call >>
    /\ UNCHANGED << request, response, probe, comment_body, post_to_github, comment_api >>

\* Line 145 with a slip: the post-back is made whatever the argument says.
posts_back_always(flag) == TRUE

\* Line 145: "if post_to_github".
posts_back(flag) == flag

\* Line 142, and lines 145-148 when post_to_github is false: the store
\* takes the document and gives it its id, or the write fails and the
\* exception leaves trigger_review.
Insert(c) ==
    /\ pc[c] = "insert"
    /\ \E outcome \in {"ok", "StoreError"} :
          /\ ext' = [ext EXCEPT ![c] = Append(@, Ext("insert", outcome = "ok", 0))]
          /\ IF outcome = "ok"
             THEN LET doc == [review[c][1] EXCEPT !.id = Len(reviews) + 1]
                  IN /\ reviews' = Append(reviews, doc)
                     /\ review_call' = Append(review_call, c)
                     /\ review' = [review EXCEPT ![c] = << doc >>]
                     /\ IF posts_back(post_to_github[c])
                        THEN /\ pc' = [pc EXCEPT ![c] = "post_review_to_github"]
                             /\ UNCHANGED result
                        ELSE /\ pc' = [pc EXCEPT ![c] = "done"]
                             /\ result' = [result EXCEPT ![c] = Returned]
                     /\ UNCHANGED << pr_details, pr_files, file_idx,
                                     analysis_results, final_review >>
             ELSE /\ Raise(c, outcome)
                  /\ UNCHANGED << reviews, review_call >>
    /\ UNCHANGED << request, response, probe, comment_body, post_to_github, comment_api >>

\* post_review_to_github with a slip: the except clause names only the
\* provider's exception, so the AttributeError leaves trigger_review.
PostReviewToGithub_uncaught(c) ==
    /\ pc[c] = "post_review_to_github"
    /\ ext' = [ext EXCEPT ![c] = Append(@, Ext("post_comment", FALSE, 0))]
    /\ Raise(c, "AttributeError")
    /\ UNCHANGED << request, response, probe, comment_body, post_to_github, comment_api, reviews, review_call >>

\* post_review_to_github with a slip: a failed post is tried once more.
PostReviewToGithub_retry(c) ==
    /\ pc[c] = "post_review_to_github"
    /\ ext' = [ext EXCEPT ![c] = Append(@, Ext("post_comment", FALSE, 0))]
    /\ IF Len(SelectSeq(ext[c], LAMBDA e : e.op = "post_comment")) = 0
       THEN UNCHANGED << pc, result >>
       ELSE /\ pc' = [pc EXCEPT ![c] = "done"]
            /\ result' = [result EXCEPT ![c] = Returned]
    /\ UNCHANGED << request, response, probe, comment_body, post_to_github, comment_api, pr_details, pr_files, file_idx,
                    analysis_results, final_review, review, reviews, review_call >>

\* post_review_to_github with a slip: the except clause marks the Review
\* failed and saves it.
PostReviewToGithub_marks_failed(c) ==
    /\ pc[c] = "post_review_to_github"
    /\ LET r == review[c][1]
           marked == [r EXCEPT !.overall_status = "failed"]
       IN /\ review' = [review EXCEPT ![c] = << marked >>]
          /\ reviews' = [reviews EXCEPT ![r.id] = marked]
    /\ ext' = [ext EXCEPT ![c] = @ \o << Ext("post_comment", FALSE, 0),
                                          Ext("save", TRUE, 0) >>]
    /\ pc' = [pc EXCEPT ![c] = "done"]
    /\ result' = [result EXCEPT ![c] = Returned]
    /\ UNCHANGED << request, response, probe, comment_body, post_to_github, comment_api,
                    pr_details, pr_files, file_idx, analysis_results,
                    final_review, review_call >>

\* post_review_to_github (lines 150-176) and the return of line 148.  The
\* try block calls github_service.post_comment; the lookup of a method the
\* class does not define is an AttributeError, which "except Exception"
\* catches like any error of the provider or of review.save().
PostReviewToGithub(c) ==
    /\ pc[c] = "post_review_to_github"
    /\ IF "post_comment" \in GitHubServiceMethods
       THEN IF comment_api = "accepts"
            THEN \E saved \in BOOLEAN :
                    LET r == review[c][1]
                        posted == [r EXCEPT !.agent_results[1].posted_to_github = TRUE,
                                            !.agent_results[1].github_comment_id = "result"]
                    IN /\ review' = [review EXCEPT ![c] = << posted >>]
                       /\ reviews' = IF saved THEN [reviews EXCEPT ![r.id] = posted]
                                     ELSE reviews
                       /\ ext' = [ext EXCEPT ![c] =
                                     @ \o << Ext("post_comment", TRUE, 0),
                                             Ext("save", saved, 0) >>]
            ELSE /\ ext' = [ext EXCEPT ![c] = Append(@, Ext("post_comment", FALSE, 0))]
                 /\ UNCHANGED << review, reviews >>
       ELSE /\ ext' = [ext EXCEPT ![c] = Append(@, Ext("post_comment", FALSE, 0))]
            /\ UNCHANGED << review, reviews >>
    /\ pc' = [pc EXCEPT ![c] = "done"]
    /\ result' = [result EXCEPT ![c] = Returned]
    /\ UNCHANGED << request, response, probe, comment_body, post_to_github, comment_api, pr_details, pr_files, file_idx,
                    analysis_results, final_review, review_call >>

(***************************************************************************)
(* The callers of trigger_review: the manual route and the webhook task    *)
(***************************************************************************)

\* The route or the task ends without having called trigger_review.
EndsWithoutCall(c, req, resp) ==
    /\ request' = [request EXCEPT ![c] = req]
    /\ response' = [response EXCEPT ![c] = resp]
    /\ UNCHANGED << probe, comment_body, pc, post_to_github, comment_api, pr_details, pr_files,
                    file_idx, analysis_results, final_review, review, result,
                    ext, reviews, review_call >>

\* The route or the task calls trigger_review.
Calls_trigger_review(c, req, post) ==
    /\ request' = [request EXCEPT ![c] = req]
    /\ UNCHANGED response
    /\ trigger_review(c, post)

\* What Repository.get gives the manual route: the document, nothing (no
\* document has this id), or an exception (the id is no ObjectId).
RepositoryGetOutcomes == {"found", "missing", "invalid_id"}

\* Line 54 of routes/reviews.py with a slip: the comparison is missing.
not_owner_unchecked(who) == FALSE

\* Line 54 of routes/reviews.py: str(repo.user.ref.id) != str(current_user.id).
not_owner(who) == who # "owner"

\* POST /reviews/analyze, lines 36-63 of routes/reviews.py: an exception of
\* the lookup is answered 404; a lookup that finds nothing returns None, and
\* repo.user of line 54 is an AttributeError outside any try; another
\* user's repository is answered 403; otherwise trigger_review is awaited
\* with the request's post_to_github.
reviews_trigger_review(c) ==
    /\ request[c].route = "none"
    /\ \E got \in RepositoryGetOutcomes :
          LET req == [NoRequest EXCEPT !.route = "manual", !.repo = got]
          IN IF got = "invalid_id"
             THEN EndsWithoutCall(c, req, [status |-> "404",
                                           detail |-> "Repository not found"])
             ELSE IF got = "missing"
             THEN EndsWithoutCall(c, req, [status |-> "exception",
                                           detail |-> "AttributeError"])
             ELSE \E owner \in {"owner", "other"} :
                     IF not_owner(owner)
                     THEN EndsWithoutCall(c, [req EXCEPT !.user = owner],
                             [status |-> "403",
                              detail |-> "Not authorized to review this repository"])
                     ELSE \E post \in BOOLEAN :
                             Calls_trigger_review(c, [req EXCEPT !.user = owner], post)

\* Lines 64-81 of routes/reviews.py: the Review is answered as a
\* ReviewResponse; any exception of trigger_review becomes an HTTPException
\* with status 500 whose detail quotes the exception.
reviews_trigger_review_responds(c) ==
    /\ request[c].route = "manual"
    /\ response[c] = NoResponse
    /\ pc[c] = "done"
    /\ response' = [response EXCEPT ![c] =
                       IF result[c].kind = "returned"
                       THEN [status |-> "200", detail |-> "ReviewResponse"]
                       ELSE [status |-> "500", detail |-> "Failed to trigger review: e"]]
    /\ UNCHANGED << request, probe, comment_body, pc, post_to_github, comment_api, pr_details,
                    pr_files, file_idx, analysis_results, final_review, review,
                    result, ext, reviews, review_call >>

\* The values of payload.get('action') of a pull_request event; None when
\* the payload has no action.
WebhookActions == {"opened", "synchronize", "reopened", "closed", "edited", None}

\* Line 51 of routes/webhooks.py with a slip: closed is in the list.
RecognizedActions_with_closed == {"opened", "synchronize", "reopened", "closed"}

\* Line 51 of routes/webhooks.py.
RecognizedActions == {"opened", "synchronize", "reopened"}

\* Line 74 of routes/webhooks.py with a slip: the setting is not looked at.
auto_review_off_unchecked(auto) == FALSE

\* Line 74 of routes/webhooks.py: "if not repo.settings.auto_review_on_pr".
auto_review_off(auto) == auto = "off"

\* process_pr_event, lines 39-85 of routes/webhooks.py, the task that
\* github_webhook hands to the background runner for a pull_request event:
\* it returns on an action outside the list, on a repository that is not in
\* the store, on a missing owner and on auto_review_on_pr false; otherwise
\* it awaits trigger_review with post_to_github=True.
process_pr_event(c) ==
    /\ request[c].route = "none"
    /\ \E action \in WebhookActions :
          LET req == [NoRequest EXCEPT !.route = "webhook", !.action = action]
          IN IF action \notin RecognizedActions
             THEN EndsWithoutCall(c, req, [status |-> "returned",
                                           detail |-> "Ignoring PR action"])
             ELSE \E repo \in {"found", "missing"} :
                     IF repo = "missing"
                     THEN EndsWithoutCall(c, [req EXCEPT !.repo = repo],
                             [status |-> "returned",
                              detail |-> "Repository not found in database"])
                     ELSE \E user \in {"found", "missing"} :
                             IF user = "missing"
                             THEN EndsWithoutCall(c,
                                     [req EXCEPT !.repo = repo, !.user = user],
                                     [status |-> "returned",
                                      detail |-> "User not found for repository"])
                             ELSE \E auto \in {"on", "off"} :
                                     LET r == [req EXCEPT !.repo = repo, !.user = user,
                                                          !.auto_review = auto]
                                     IN IF auto_review_off(auto)
                                        THEN EndsWithoutCall(c, r,
                                                [status |-> "returned",
                                                 detail |-> "Auto-review disabled"])
                                        ELSE Calls_trigger_review(c, r, TRUE)

\* Lines 87-92 of routes/webhooks.py with a slip: the except clause raises
\* the exception again after it has printed it.
process_pr_event_reraises(c) ==
    /\ request[c].route = "webhook"
    /\ response[c] = NoResponse
    /\ pc[c] = "done"
    /\ response' = [response EXCEPT ![c] =
                       IF result[c].kind = "returned"
                       THEN [status |-> "returned", detail |-> "Review completed"]
                       ELSE [status |-> "exception", detail |-> result[c].exc]]
    /\ UNCHANGED << request, probe, comment_body, pc, post_to_github, comment_api, pr_details,
                    pr_files, file_idx, analysis_results, final_review, review,
                    result, ext, reviews, review_call >>

\* Lines 87-92 of routes/webhooks.py: the task prints the Review's id, or
\* its "except Exception" prints the error; either way it returns.
process_pr_event_returns(c) ==
    /\ request[c].route = "webhook"
    /\ response[c] = NoResponse
    /\ pc[c] = "done"
    /\ response' = [response EXCEPT ![c] =
                       IF result[c].kind = "returned"
                       THEN [status |-> "returned", detail |-> "Review completed"]
                       ELSE [status |-> "returned",
                             detail |-> "Error processing PR event"]]
    /\ UNCHANGED << request, probe, comment_body, pc, post_to_github, comment_api, pr_details,
                    pr_files, file_idx, analysis_results, final_review, review,
                    result, ext, reviews, review_call >>

(***************************************************************************)
(* Specifications                                                          *)
(***************************************************************************)

\* The program: requests to the manual route and webhook deliveries, each
\* running trigger_review, concurrently.
Next ==
    \E c \in Calls :
        \/ reviews_trigger_review(c)
        \/ reviews_trigger_review_responds(c)
        \/ process_pr_event(c)
        \/ process_pr_event_returns(c)
        \/ GetPrDetails(c)
        \/ GetPrFiles(c)

Spec == Init /\ [][Next]_vars

\* trigger_review from the start of the agent's workflow on, in one call
\* whose lookups in pr_details find their keys: both fetches have succeeded,
\* pr_files is any list the provider can return.  The provider would accept
\* a comment; the post-back never gets as far as asking it.
InitPipeline ==
    /\ request = [c \in Calls |->
                     IF c = 1 THEN [NoRequest EXCEPT !.route = "direct"]
                     ELSE NoRequest]
    /\ response = [c \in Calls |-> NoResponse]
    /\ probe = NoProbe
    /\ comment_body = << >>
    /\ pc = [c \in Calls |-> IF c = 1 THEN "analyze_files" ELSE "idle"]
    /\ post_to_github \in [Calls -> BOOLEAN]
    /\ \A c \in Calls : c # 1 => post_to_github[c]
    /\ comment_api = "accepts"
    /\ pr_details = [c \in Calls |-> IF c = 1 THEN ReviewDetailKeys ELSE {}]
    /\ \E files \in FileLists :
          pr_files = [c \in Calls |-> IF c = 1 THEN files ELSE << >>]
    /\ file_idx = [c \in Calls |-> 1]
    /\ analysis_results = [c \in Calls |-> << >>]
    /\ final_review = [c \in Calls |-> EmptyText]
    /\ review = [c \in Calls |-> << >>]
    /\ result = [c \in Calls |-> NoResult]
    /\ ext = [c \in Calls |->
                 IF c = 1 THEN << Ext("get_pr_details", TRUE, 0),
                                  Ext("get_pr_files", TRUE, 0) >>
                 ELSE << >>]
    /\ reviews = << >>
    /\ review_call = << >>

NextPipeline ==
    \E c \in Calls :
        \/ AnalyzeFile(c)
        \/ AnalyzeFilesReturn(c)
        \/ SummarizeReview(c)
        \/ BuildReview(c)
        \/ Insert(c)
        \/ PostReviewToGithub(c)

SpecPipeline == InitPipeline /\ [][NextPipeline]_vars

\* One step of call c of trigger_review.
TriggerReviewStep(c) ==
    \/ AnalyzeFile(c)
    \/ AnalyzeFilesReturn(c)
    \/ SummarizeReview(c)
    \/ BuildReview(c)
    \/ Insert(c)
    \/ PostReviewToGithub(c)

\* SpecPipeline when every external call returns or fails and the event
\* loop resumes the coroutine that awaits it: a call that can take a step
\* takes one in the end.
SpecPipelineFair ==
    /\ InitPipeline
    /\ [][NextPipeline]_vars
    /\ \A c \in Calls : WF_vars(TriggerReviewStep(c))

\* What analyze_files makes of one response of the capability, for every
\* response the capability can give.
InitParse ==
    /\ request = [c \in Calls |-> NoRequest]
    /\ response = [c \in Calls |-> NoResponse]
    /\ \E resp \in ResponsesUpTo(MaxIssues) :
          probe = [NoProbe EXCEPT !.stage = "response", !.resp = resp]
    /\ comment_body = << >>
    /\ pc = [c \in Calls |-> "idle"]
    /\ post_to_github = [c \in Calls |-> TRUE]
    /\ comment_api = "rejects"
    /\ pr_details = [c \in Calls |-> {}]
    /\ pr_files = [c \in Calls |-> << >>]
    /\ file_idx = [c \in Calls |-> 1]
    /\ analysis_results = [c \in Calls |-> << >>]
    /\ final_review = [c \in Calls |-> EmptyText]
    /\ review = [c \in Calls |-> << >>]
    /\ result = [c \in Calls |-> NoResult]
    /\ ext = [c \in Calls |-> << >>]
    /\ reviews = << >>
    /\ review_call = << >>

\* Lines 63-83 on the response under examination.
AnalyzeResponse ==
    /\ probe.stage = "response"
    /\ probe' = [probe EXCEPT !.stage = "parsed", !.out = parse_response(probe.resp)]
    /\ UNCHANGED << request, response, comment_body, pc, post_to_github, comment_api, pr_details,
                    pr_files, file_idx, analysis_results, final_review, review,
                    result, ext, reviews, review_call >>

NextParse == AnalyzeResponse

SpecParse == InitParse /\ [][NextParse]_vars

\* Several calls of trigger_review for one PR of one repository, each
\* back from the agent's workflow (line 57) with its own result: no issue,
\* or one issue in the one file of the PR.  Up to there a call touches
\* nothing but its own locals; from there on the calls interleave at their
\* awaits of the store.
InitConcurrent ==
    /\ request = [c \in Calls |-> [NoRequest EXCEPT !.route = "direct"]]
    /\ response = [c \in Calls |-> NoResponse]
    /\ probe = NoProbe
    /\ comment_body = << >>
    /\ pc = [c \in Calls |-> "build_review"]
    /\ post_to_github \in [Calls -> BOOLEAN]
    /\ comment_api = "rejects"
    /\ pr_details = [c \in Calls |-> ReviewDetailKeys]
    /\ pr_files = [c \in Calls |-> << [status |-> "modified", patch |-> "p"] >>]
    /\ file_idx = [c \in Calls |-> 2]
    /\ \E found \in [Calls -> BOOLEAN] :
          /\ analysis_results =
                [c \in Calls |->
                    IF found[c]
                    THEN << [filename |-> 1,
                             issues |-> [type |-> "list",
                                         items |-> << Issue(TRUE, "3", "high",
                                                            "security", "d") >>]] >>
                    ELSE << >>]
          /\ final_review =
                [c \in Calls |->
                    IF found[c] THEN [kind |-> "response.text", len |-> 120]
                    ELSE FixedSummary]
          /\ ext =
                [c \in Calls |->
                    << Ext("get_pr_details", TRUE, 0), Ext("get_pr_files", TRUE, 0),
                       Ext("generate_content", TRUE, 1) >>
                    \o (IF found[c] THEN << Ext("generate_content", TRUE, 0) >>
                        ELSE << >>)]
    /\ review = [c \in Calls |-> << >>]
    /\ result = [c \in Calls |-> NoResult]
    /\ reviews = << >>
    /\ review_call = << >>

NextConcurrent ==
    \E c \in Calls :
        \/ BuildReview(c)
        \/ Insert(c)
        \/ PostReviewToGithub(c)

SpecConcurrent == InitConcurrent /\ [][NextConcurrent]_vars

\* The requests with which a caller reaches its await of trigger_review: the
\* manual route for the owner of a repository it has found, the webhook
\* task for a recognized action on a registered repository whose owner
\* exists and whose auto_review_on_pr is on.
CallingRequests ==
    { [NoRequest EXCEPT !.route = "manual", !.repo = "found", !.user = "owner"] }
    \cup { [NoRequest EXCEPT !.route = "webhook", !.action = a, !.repo = "found",
                             !.user = "found", !.auto_review = "on"] :
            a \in RecognizedActions }

\* Every call has been started by one of the two callers and is back from
\* the agent's workflow (line 57) with its result: no issue, or one issue in
\* the one file of the PR.  The webhook task has passed post_to_github=True,
\* the manual route the flag of its request.
InitCallers ==
    /\ request \in [Calls -> CallingRequests]
    /\ response = [c \in Calls |-> NoResponse]
    /\ probe = NoProbe
    /\ comment_body = << >>
    /\ pc = [c \in Calls |-> "build_review"]
    /\ post_to_github \in [Calls -> BOOLEAN]
    /\ \A c \in Calls : request[c].route = "webhook" => post_to_github[c]
    /\ comment_api = "rejects"
    /\ pr_details = [c \in Calls |-> ReviewDetailKeys]
    /\ pr_files = [c \in Calls |-> << [status |-> "modified", patch |-> "p"] >>]
    /\ file_idx = [c \in Calls |-> 2]
    /\ \E found \in [Calls -> BOOLEAN] :
          /\ analysis_results =
                [c \in Calls |->
                    IF found[c]
                    THEN << [filename |-> 1,
                             issues |-> [type |-> "list",
                                         items |-> << Issue(TRUE, "3", "high",
                                                            "security", "d") >>]] >>
                    ELSE << >>]
          /\ final_review =
                [c \in Calls |->
                    IF found[c] THEN [kind |-> "response.text", len |-> 120]
                    ELSE FixedSummary]
          /\ ext =
                [c \in Calls |->
                    << Ext("get_pr_details", TRUE, 0), Ext("get_pr_files", TRUE, 0),
                       Ext("generate_content", TRUE, 1) >>
                    \o (IF found[c] THEN << Ext("generate_content", TRUE, 0) >>
                        ELSE << >>)]
    /\ review = [c \in Calls |-> << >>]
    /\ result = [c \in Calls |-> NoResult]
    /\ reviews = << >>
    /\ review_call = << >>

NextCallers ==
    \E c \in Calls :
        \/ BuildReview(c)
        \/ Insert(c)
        \/ PostReviewToGithub(c)
        \/ reviews_trigger_review_responds(c)
        \/ process_pr_event_returns(c)

SpecCallers == InitCallers /\ [][NextCallers]_vars

\* The issues of the universe that the tally of lines 67-77 accepts.
TalliedIssues == {i \in IssueUniverse : IssueError(i) = None}

\* The analysis results of a PR of two files whose issues the tally accepts.
TalliedResults ==
    LET lists == { l \in IssueListsUpTo(MaxIssues) :
                      \A k \in 1..Len(l) : l[k] \in TalliedIssues }
        entry(f, l) == IF l = << >> THEN << >>
                       ELSE << [filename |-> f,
                                issues |-> [type |-> "list", items |-> l]] >>
    IN { entry(1, l1) \o entry(2, l2) :
            <<l1, l2>> \in { p \in lists \X lists : Len(p[1]) + Len(p[2]) <= MaxIssues } }

\* _format_review_comment on a Review that trigger_review has inserted: any
\* Review the tally can build for a PR of two files.
InitFormat ==
    /\ request = [c \in Calls |->
                     IF c = 1 THEN [NoRequest EXCEPT !.route = "direct"]
                     ELSE NoRequest]
    /\ response = [c \in Calls |-> NoResponse]
    /\ probe = NoProbe
    /\ comment_body = << >>
    /\ pc = [c \in Calls |-> IF c = 1 THEN "format_review_comment" ELSE "idle"]
    /\ post_to_github = [c \in Calls |-> TRUE]
    /\ comment_api = "accepts"
    /\ pr_details = [c \in Calls |-> {}]
    /\ pr_files = [c \in Calls |-> << >>]
    /\ file_idx = [c \in Calls |-> 1]
    /\ analysis_results = [c \in Calls |-> << >>]
    /\ final_review = [c \in Calls |-> EmptyText]
    /\ \E results \in TalliedResults, o \in SummaryTexts :
          LET text == IF results = << >> THEN FixedSummary ELSE o.text
              doc == [NewReview(<< [status |-> "modified", patch |-> "p"],
                                   [status |-> "modified", patch |-> "p"] >>,
                                results, text) EXCEPT !.id = 1]
          IN /\ review = [c \in Calls |-> IF c = 1 THEN << doc >> ELSE << >>]
             /\ reviews = << doc >>
    /\ result = [c \in Calls |-> NoResult]
    /\ ext = [c \in Calls |-> << >>]
    /\ review_call = << 1 >>

\* Line 159 with a slip: the formatter takes the issues it prints out of
\* the Review's list.
FormatReviewComment_consumes_issues(c) ==
    /\ pc[c] = "format_review_comment"
    /\ Len(comment_body) < 2
    /\ comment_body' = Append(comment_body, _format_review_comment(review[c][1]))
    /\ review' = [review EXCEPT
                     ![c][1].agent_results[1].output.code_quality_issues = << >>]
    /\ UNCHANGED << request, response, probe, pc, post_to_github, comment_api,
                    pr_details, pr_files, file_idx, analysis_results,
                    final_review, result, ext, reviews, review_call >>

\* Line 159: self._format_review_comment(review), called on the Review as
\* it stands; it reads the Review and builds a new string.
FormatReviewComment(c) ==
    /\ pc[c] = "format_review_comment"
    /\ Len(comment_body) < 2
    /\ comment_body' = Append(comment_body, _format_review_comment(review[c][1]))
    /\ UNCHANGED << request, response, probe, pc, post_to_github, comment_api,
                    pr_details, pr_files, file_idx, analysis_results,
                    final_review, review, result, ext, reviews, review_call >>

NextFormat == \E c \in Calls : FormatReviewComment(c)

SpecFormat == InitFormat /\ [][NextFormat]_vars

\* Two calls of trigger_review back from the workflow, the second for the
\* PR of the first with its two files listed in the other order: the issues
\* the capability returned for a file are the same in both, the place of
\* the file is not.  Any issues the capability can return.
InitPermuted ==
    /\ request = [c \in Calls |->
                     IF c \in {1, 2} THEN [NoRequest EXCEPT !.route = "direct"]
                     ELSE NoRequest]
    /\ response = [c \in Calls |-> NoResponse]
    /\ probe = NoProbe
    /\ comment_body = << >>
    /\ pc = [c \in Calls |-> IF c \in {1, 2} THEN "build_review" ELSE "idle"]
    /\ post_to_github = [c \in Calls |-> TRUE]
    /\ comment_api = "accepts"
    /\ pr_details = [c \in Calls |-> IF c \in {1, 2} THEN ReviewDetailKeys ELSE {}]
    /\ pr_files = [c \in Calls |->
                      IF c \in {1, 2}
                      THEN << [status |-> "modified", patch |-> "p"],
                              [status |-> "modified", patch |-> "p"] >>
                      ELSE << >>]
    /\ file_idx = [c \in Calls |-> IF c \in {1, 2} THEN 3 ELSE 1]
    /\ \E l1, l2 \in IssueListsUpTo(MaxIssues) :
          LET entry(f, l) == IF l = << >> THEN << >>
                             ELSE << [filename |-> f,
                                      issues |-> [type |-> "list", items |-> l]] >>
              text == IF l1 = << >> /\ l2 = << >> THEN FixedSummary
                      ELSE [kind |-> "response.text", len |-> 120]
              asked == << Ext("get_pr_details", TRUE, 0), Ext("get_pr_files", TRUE, 0),
                          Ext("generate_content", TRUE, 1),
                          Ext("generate_content", TRUE, 2) >>
                       \o (IF l1 = << >> /\ l2 = << >> THEN << >>
                           ELSE << Ext("generate_content", TRUE, 0) >>)
          IN /\ Len(l1) + Len(l2) <= MaxIssues
             /\ analysis_results =
                   [c \in Calls |->
                       IF c = 1 THEN entry(1, l1) \o entry(2, l2)
                       ELSE IF c = 2 THEN entry(1, l2) \o entry(2, l1)
                       ELSE << >>]
             /\ final_review = [c \in Calls |-> IF c \in {1, 2} THEN text ELSE EmptyText]
             /\ ext = [c \in Calls |-> IF c \in {1, 2} THEN asked ELSE << >>]
    /\ review = [c \in Calls |-> << >>]
    /\ result = [c \in Calls |-> NoResult]
    /\ reviews = << >>
    /\ review_call = << >>

NextPermuted == \E c \in Calls : BuildReview(c)

SpecPermuted == InitPermuted /\ [][NextPermuted]_vars

(***************************************************************************)
(* Properties                                                              *)
(***************************************************************************)

Done(c) == pc[c] = "done"

\* Call c has made the external operation op / with success / with failure.
Did(c, op) == \E i \in 1..Len(ext[c]) : ext[c][i].op = op
Succeeded(c, op) == \E i \in 1..Len(ext[c]) : ext[c][i].op = op /\ ext[c][i].ok
Failed(c, op) == \E i \in 1..Len(ext[c]) : ext[c][i].op = op /\ ~ext[c][i].ok
Times(c, op) == Cardinality({i \in 1..Len(ext[c]) : ext[c][i].op = op})

\* The ids of the stored Reviews that call c inserted.
StoredBy(c) == {i \in 1..Len(reviews) : review_call[i] = c}

\* How many entries of a list of issue rows satisfy P.
CountRows(rows, P(_)) == Cardinality({k \in 1..Len(rows) : P(rows[k])})

\* C1: whenever get_pr_details and get_pr_files both succeed and the store
\* insert does not fail, a finished call of trigger_review has inserted
\* exactly one Review, with overall_status completed and completed_at set,
\* and has returned that Review.
C1_FetchedReviewIsPersistedAndReturned ==
    \A c \in Calls :
        (Done(c) /\ Succeeded(c, "get_pr_details") /\ Succeeded(c, "get_pr_files")
            /\ ~Failed(c, "insert"))
        => /\ result[c].kind = "returned"
           /\ Cardinality(StoredBy(c)) = 1
           /\ \A i \in StoredBy(c) :
                 /\ reviews[i].overall_status = "completed"
                 /\ reviews[i].completed_at # None
                 /\ review[c] # << >>
                 /\ review[c][1].id = i

\* C2: if fetching the PR details or the file list fails, trigger_review
\* ends with an error, the analysis capability is never invoked, no comment
\* is posted, and the call inserts no Review, partial or not.
C2_FetchFailureAbortsWithoutEffects ==
    \A c \in Calls :
        (Failed(c, "get_pr_details") \/ Failed(c, "get_pr_files"))
        => /\ Done(c)
           /\ result[c].kind = "raised"
           /\ ~Did(c, "generate_content")
           /\ ~Did(c, "post_comment")
           /\ ~Did(c, "insert")
           /\ StoredBy(c) = {}
           /\ review[c] = << >>

\* A call whose file-list fetch failed after its details fetch succeeded.
C2_Witness ==
    \E c \in Calls :
        /\ Succeeded(c, "get_pr_details")
        /\ Failed(c, "get_pr_files")
        /\ Done(c)
        /\ result[c].kind = "raised"

C5_CountsAreTallyOfOwnIssues ==
    \A i \in 1..Len(reviews) :
        LET r == reviews[i]
            rows == r.agent_results[1].output.code_quality_issues
        IN /\ Len(r.agent_results) = 1
           /\ r.high_issues = CountRows(rows, LAMBDA x : x.severity = "high")
           /\ r.medium_issues = CountRows(rows, LAMBDA x : x.severity = "medium")
           /\ r.low_issues = CountRows(rows, LAMBDA x : x.severity = "low")
           /\ r.critical_issues =
                 CountRows(rows, LAMBDA x : x.severity = "high" /\ x.category = "security")

\* The example of the claim: two files, one high security issue in one of
\* them, stored with issues_found 1, high 1, medium 0, low 0, critical 1.
C5_Witness ==
    \E i \in 1..Len(reviews) :
        /\ reviews[i].total_files_changed = 2
        /\ reviews[i].issues_found = 1
        /\ reviews[i].high_issues = 1
        /\ reviews[i].medium_issues = 0
        /\ reviews[i].low_issues = 0
        /\ reviews[i].critical_issues = 1

\* C6: in every persisted Review, critical_issues <= high_issues.
C6_CriticalAtMostHigh ==
    \A i \in 1..Len(reviews) : reviews[i].critical_issues <= reviews[i].high_issues

\* A stored Review with a critical issue and a high issue that is not one.
C6_Witness ==
    \E i \in 1..Len(reviews) :
        /\ reviews[i].critical_issues = 1
        /\ reviews[i].high_issues = 2

\* C7: if post_to_github is true and the post-back call fails,
\* trigger_review still returns the completed Review, whose posted_to_github
\* is false in memory and in the store; no exception reaches the caller.
C7_FailedPostStillReturnsReview ==
    \A c \in Calls :
        (post_to_github[c] /\ Failed(c, "post_comment"))
        => /\ Done(c)
           /\ result[c].kind = "returned"
           /\ review[c] # << >>
           /\ review[c][1].overall_status = "completed"
           /\ ~review[c][1].agent_results[1].posted_to_github
           /\ StoredBy(c) = {review[c][1].id}
           /\ ~reviews[review[c][1].id].agent_results[1].posted_to_github

\* A call with post_to_github whose post-back failed after its insert.
C7_Witness ==
    \E c \in Calls :
        /\ post_to_github[c]
        /\ Succeeded(c, "insert")
        /\ Failed(c, "post_comment")
        /\ result[c].kind = "returned"

C9_PostAttemptedAtMostOnce ==
    \A c \in Calls : Times(c, "post_comment") <= 1

\* A finished call whose one post attempt failed.
C9_Witness ==
    \E c \in Calls :
        /\ Done(c)
        /\ Times(c, "post_comment") = 1
        /\ Failed(c, "post_comment")

\* The place of an external operation in the order of the claim.
Rank(op) ==
    CASE op = "get_pr_details" -> 1
      [] op = "get_pr_files" -> 2
      [] op = "generate_content" -> 3
      [] op = "insert" -> 4
      [] op = "post_comment" -> 5
      [] op = "save" -> 6

\* C10: within one call the external operations happen in the order fetch,
\* capability calls, insert, post: no capability call follows the insert or
\* the post, the insert happens only after the workflow has produced
\* final_review, and the post only after the insert has succeeded.
C10_StepsInOrder ==
    \A c \in Calls :
        /\ \A i, j \in 1..Len(ext[c]) :
              i < j => /\ Rank(ext[c][i].op) <= Rank(ext[c][j].op)
                       /\ ext[c][j].op # "generate_content"
                             => Rank(ext[c][i].op) < Rank(ext[c][j].op)
        /\ Did(c, "insert") => review[c] # << >> \/ Failed(c, "insert")
        /\ Did(c, "insert") /\ ~Failed(c, "insert")
              => review[c][1].agent_results[1].output.summary.kind # ""
        /\ Did(c, "post_comment") => Succeeded(c, "insert")

\* A finished call that fetched, asked the capability for a file and for
\* the summary, inserted and attempted the post.
C10_Witness ==
    \E c \in Calls :
        /\ Done(c)
        /\ Succeeded(c, "get_pr_files")
        /\ Times(c, "generate_content") >= 2
        /\ Succeeded(c, "insert")
        /\ Did(c, "post_comment")

\* C11: if the store insert fails, trigger_review ends with an error to its
\* caller, returns no Review, leaves none in the store, and does not attempt
\* the post-back.
C11_InsertFailureFailsTheCall ==
    \A c \in Calls :
        Failed(c, "insert")
        => /\ Done(c)
           /\ result[c].kind = "raised"
           /\ review[c] = << >>
           /\ StoredBy(c) = {}
           /\ ~Did(c, "post_comment")

\* A call with post_to_github whose insert failed.
C11_Witness ==
    \E c \in Calls :
        /\ post_to_github[c]
        /\ Failed(c, "insert")
        /\ result[c].kind = "raised"
        /\ result[c].exc = "StoreError"

\* C12: a call of trigger_review that ended in an error has left no Review
\* in the store, and a call that returned has returned a complete Review,
\* the one it inserted: the caller never sees an error next to a persisted
\* Review, nor a Review that is not completed.
C12_ErrorOrPersistedNeverBoth ==
    \A c \in Calls :
        /\ result[c].kind = "raised" => StoredBy(c) = {} /\ review[c] = << >>
        /\ result[c].kind = "returned"
              => /\ review[c] # << >>
                 /\ review[c][1].overall_status = "completed"
                 /\ review[c][1].completed_at # None
                 /\ review[c][1].agent_results[1].status = "completed"
                 /\ StoredBy(c) = {review[c][1].id}
        /\ StoredBy(c) # {} /\ Done(c) => result[c].kind = "returned"

\* A call that ended in an error after the capability had answered: nothing
\* of it is in the store.
C12_Witness ==
    \E c \in Calls :
        /\ Done(c)
        /\ result[c].kind = "raised"
        /\ Succeeded(c, "generate_content")
        /\ ~Did(c, "insert")
        /\ StoredBy(c) = {}

\* C13: every failure of trigger_review reaches its caller as one of the
\* typed errors NotFound, Forbidden, SourceFetchFailed, PersistenceFailed:
\* the exception that leaves trigger_review is never a raw exception of the
\* provider, the capability or the store, nor an untyped one.
C13_FailuresAreTypedErrors ==
    \A c \in Calls :
        result[c].kind = "raised"
        => result[c].exc \in {"NotFound", "Forbidden", "SourceFetchFailed",
                              "PersistenceFailed"}

\* A file that was removed, or whose patch is absent or empty.
RemovedOrNoPatch(file) ==
    file.status = "removed" \/ file.patch = None \/ file.patch = ""

\* The capability was asked about file k of call c.
AskedAbout(c, k) ==
    \E i \in 1..Len(ext[c]) : ext[c][i].op = "generate_content" /\ ext[c][i].arg = k

\* C14: for a file that was removed or has no patch, analyze_files never
\* asks the capability and never puts the file in its output; when the PR
\* has only such files, the output is empty, the summary is the fixed
\* no-issues message, the capability is never asked, and the Review has
\* issues_found = 0.
C14_SkippedFilesAreNeverAnalyzed ==
    \A c \in Calls :
        /\ \A k \in 1..Len(pr_files[c]) :
              RemovedOrNoPatch(pr_files[c][k])
              => /\ ~AskedAbout(c, k)
                 /\ \A j \in 1..Len(analysis_results[c]) :
                       analysis_results[c][j].filename # k
        /\ ( /\ pc[c] \in {"build_review", "insert", "post_review_to_github", "done"}
             /\ result[c].kind # "raised"
             /\ \A k \in 1..Len(pr_files[c]) : RemovedOrNoPatch(pr_files[c][k]) )
           => /\ analysis_results[c] = << >>
              /\ final_review[c] = FixedSummary
              /\ ~Did(c, "generate_content")
              /\ review[c] # << >>
                    => /\ review[c][1].issues_found = 0
                       /\ review[c][1].agent_results[1].output.summary = FixedSummary
              /\ \A i \in StoredBy(c) : reviews[i].issues_found = 0

\* A PR of a removed file and a file without patch, whose Review is stored
\* with issues_found 0 and without any request to the capability.
C14_Witness ==
    \E c \in Calls :
        /\ Len(pr_files[c]) = 2
        /\ pr_files[c][1].status = "removed"
        /\ pr_files[c][2].patch = None
        /\ result[c].kind = "returned"
        /\ ~Did(c, "generate_content")
        /\ \E i \in StoredBy(c) : reviews[i].issues_found = 0

\* How often the capability was asked about file k of call c.
AskedTimes(c, k) ==
    Cardinality({i \in 1..Len(ext[c]) :
                    ext[c][i].op = "generate_content" /\ ext[c][i].arg = k})

\* C15: a failure while one file is analysed does not end the analysis of
\* the files after it: every file the loop has passed that is not removed
\* and has a patch was asked about exactly once, whatever happened to the
\* files before it; the entries of the output follow the order of the
\* files and come from answered requests only; and analyze_files never
\* raises, so a call that raised had already left it.
C15_FileFailureDoesNotAbortAnalysis ==
    \A c \in Calls :
        /\ \A k \in 1..Len(pr_files[c]) :
              (k < file_idx[c] /\ ~RemovedOrNoPatch(pr_files[c][k]))
              => AskedTimes(c, k) = 1
        /\ pc[c] \in {"summarize_review", "build_review", "insert",
                       "post_review_to_github"}
              => file_idx[c] = Len(pr_files[c]) + 1
        /\ \A j \in 1..Len(analysis_results[c]) :
              /\ \E i \in 1..Len(ext[c]) :
                    /\ ext[c][i].op = "generate_content"
                    /\ ext[c][i].arg = analysis_results[c][j].filename
                    /\ ext[c][i].ok
              /\ \A j2 \in 1..Len(analysis_results[c]) :
                    j < j2 => analysis_results[c][j].filename
                                 < analysis_results[c][j2].filename
        /\ result[c].kind = "raised" => AskedAbout(c, 0) \/ Did(c, "insert")

\* The request for the first file failed; the second file was analysed all
\* the same and its issues are in the output.
C15_Witness ==
    \E c \in Calls :
        /\ Len(pr_files[c]) = 2
        /\ \E i \in 1..Len(ext[c]) :
              ext[c][i].op = "generate_content" /\ ext[c][i].arg = 1 /\ ~ext[c][i].ok
        /\ \E j \in 1..Len(analysis_results[c]) :
              /\ analysis_results[c][j].filename = 2
              /\ analysis_results[c][j].issues.items # << >>
        /\ pc[c] = "summarize_review"

\* C16: when the capability's response for a file is no JSON, or is JSON
\* without an issues member (a JSON value that is no object included),
\* analyze_files gets no issues for that file, appends nothing for it, and
\* no exception leaves it.
C16_UnusableResponseYieldsNoIssues ==
    (probe.stage = "parsed" /\ ~probe.resp.raises
        /\ ( \/ ~probe.resp.text.body.json
             \/ ~probe.resp.text.body.isobj
             \/ ~probe.resp.text.body.has_issues ))
    => /\ ~probe.out.append
       /\ ItemsOf(probe.out.issues) = << >>
       /\ probe.out.exc = None

\* A response that is a JSON array, not an object, has been analysed.
C16_Witness ==
    /\ probe.stage = "parsed"
    /\ ~probe.resp.raises
    /\ probe.resp.text.body.json
    /\ ~probe.resp.text.body.isobj
    /\ probe.resp.text.open = ""
    /\ ~probe.out.append

\* The workflow of call c has ended and its state is still at hand.
AfterWorkflow(c) ==
    /\ pc[c] \in {"build_review", "insert", "post_review_to_github", "done"}
    /\ result[c].kind # "raised"
    /\ request[c].route # "none"

\* C17: when the per-file result is empty, summarize_review returns the
\* fixed message and the summary stage does not invoke the capability;
\* when it is not empty, the summary stage invokes the capability exactly
\* once.  Before the summary stage there is no summary request at all.
C17_SummaryAsksOnlyForResults ==
    \A c \in Calls :
        /\ AfterWorkflow(c) /\ analysis_results[c] = << >>
              => final_review[c] = FixedSummary /\ AskedTimes(c, 0) = 0
        /\ AfterWorkflow(c) /\ analysis_results[c] # << >>
              => AskedTimes(c, 0) = 1
        /\ pc[c] \in {"idle", "analyze_files", "summarize_review"}
              => AskedTimes(c, 0) = 0
        /\ AskedTimes(c, 0) <= 1

\* A file was analysed and gave no issues: the summary is the fixed message
\* and the summary stage has asked nothing.
C17_Witness ==
    \E c \in Calls :
        /\ pc[c] = "build_review"
        /\ AskedTimes(c, 1) = 1
        /\ analysis_results[c] = << >>
        /\ final_review[c] = FixedSummary
        /\ AskedTimes(c, 0) = 0

\* The summary request of call c failed.
SummaryFailed(c) ==
    \E i \in 1..Len(ext[c]) :
        ext[c][i].op = "generate_content" /\ ext[c][i].arg = 0 /\ ~ext[c][i].ok

\* C18: when the capability fails in the summary stage, summarize_review
\* returns a text that describes the error as the summary, the workflow
\* ends with the per-file issues as they were, and the failure does not
\* leave the workflow: a call that raised afterwards raised in the tally or
\* at the insert, and a Review built afterwards holds all the per-file
\* issues and the error text as its summary.
C18_SummaryFailureIsTheSummary ==
    \A c \in Calls :
        SummaryFailed(c)
        => /\ pc[c] \in {"build_review", "insert", "post_review_to_github", "done"}
           /\ result[c].kind = "raised"
                 => result[c].exc \in {"KeyError", "AttributeError", "StoreError"}
           /\ result[c].kind # "raised"
                 => /\ final_review[c].kind = "Error generating summary: e"
                    /\ analysis_results[c] # << >>
                    /\ \A j \in 1..Len(analysis_results[c]) :
                          AskedTimes(c, analysis_results[c][j].filename) = 1
                    /\ review[c] # << >>
                          => /\ review[c][1].agent_results[1].output.summary.kind
                                   = "Error generating summary: e"
                             /\ review[c][1].agent_results[1].output.code_quality_issues
                                   = all_issues_of(analysis_results[c])
                             /\ review[c][1].issues_found
                                   = Len(all_issues_of(analysis_results[c]))

\* The summary request failed and the call returned a Review with two
\* issues and the error text as summary.
C18_Witness ==
    \E c \in Calls :
        /\ SummaryFailed(c)
        /\ result[c].kind = "returned"
        /\ review[c][1].issues_found = 2
        /\ review[c][1].agent_results[1].output.summary.kind
              = "Error generating summary: e"

\* C19: a pull_request event starts a review only when its action is
\* opened, synchronize or reopened; on any other action process_pr_event
\* returns without error, has called neither the provider nor the
\* capability, and has inserted no Review.
C19_OnlyRecognizedActionsTrigger ==
    \A c \in Calls :
        request[c].route = "webhook"
        => /\ request[c].action \notin {"opened", "synchronize", "reopened"}
                 => /\ pc[c] = "idle"
                    /\ ext[c] = << >>
                    /\ StoredBy(c) = {}
                    /\ result[c].kind = "none"
                    /\ response[c] = [status |-> "returned",
                                      detail |-> "Ignoring PR action"]
           /\ (pc[c] # "idle" \/ ext[c] # << >> \/ StoredBy(c) # {})
                 => request[c].action \in {"opened", "synchronize", "reopened"}

\* An event with action closed has been handled, while an event with action
\* synchronize has led to a request to the provider.
C19_Witness ==
    \E c, d \in Calls :
        /\ request[c].route = "webhook"
        /\ request[c].action = "closed"
        /\ response[c].status = "returned"
        /\ request[d].route = "webhook"
        /\ request[d].action = "synchronize"
        /\ Did(d, "get_pr_details")

\* C20: nothing deduplicates or serializes the calls of trigger_review for
\* one PR: under every interleaving, each call that has returned has
\* exactly one Review of its own in the store, equal to the Review it
\* returned and built from its own analysis results; the stored Reviews
\* have distinct ids, there is one for every insert that succeeded, and
\* none is changed by another call.
C20_EveryCallKeepsItsOwnReview ==
    /\ \A c \in Calls :
          result[c].kind = "returned"
          => /\ Cardinality(StoredBy(c)) = 1
             /\ \A i \in StoredBy(c) :
                   /\ reviews[i] = review[c][1]
                   /\ reviews[i].agent_results[1].output.code_quality_issues
                         = all_issues_of(analysis_results[c])
                   /\ reviews[i].issues_found = Len(all_issues_of(analysis_results[c]))
    /\ \A i \in 1..Len(reviews) :
          /\ reviews[i].id = i
          /\ Succeeded(review_call[i], "insert")
          /\ reviews[i].agent_results[1].output.code_quality_issues
                = all_issues_of(analysis_results[review_call[i]])
    /\ Len(reviews) = Cardinality({c \in Calls : Succeeded(c, "insert")})

\* Every call has returned, and the store holds as many Reviews as there
\* are calls, one of them with an issue and one without.
C20_Witness ==
    /\ \A c \in Calls : result[c].kind = "returned"
    /\ Len(reviews) = MaxCalls
    /\ \E i, j \in 1..Len(reviews) :
          /\ reviews[i].issues_found = 1
          /\ reviews[j].issues_found = 0
          /\ review_call[i] # review_call[j]

\* Two Review documents agree in every field but the post-back fields of
\* their agent result.
SameButPostBack(old, new) ==
    [new EXCEPT !.agent_results[1].posted_to_github =
                    old.agent_results[1].posted_to_github,
                !.agent_results[1].github_comment_id =
                    old.agent_results[1].github_comment_id] = old

\* C21: a Review inserted with overall_status completed has completed_at
\* set, and no step after the insert, of its own call or of another,
\* removes it or changes a stored field of it other than posted_to_github
\* and the comment id of its agent result; those change at most once, from
\* not posted to posted.
C21_StoredReviewIsFrozen ==
    [][ /\ Len(reviews') >= Len(reviews)
        /\ \A i \in 1..Len(reviews) :
              /\ SameButPostBack(reviews[i], reviews'[i])
              /\ reviews'[i] # reviews[i]
                    => /\ ~reviews[i].agent_results[1].posted_to_github
                       /\ reviews'[i].agent_results[1].posted_to_github
        /\ \A i \in 1..Len(reviews') :
              reviews'[i].overall_status = "completed"
              => reviews'[i].completed_at # None ]_vars

\* Two calls have inserted their Reviews, and the one that inserted first
\* has gone through its post-back afterwards.
C21_Witness ==
    /\ Len(reviews) >= 2
    /\ reviews[1].overall_status = "completed"
    /\ Did(review_call[1], "post_comment")
    /\ Done(review_call[1])
    /\ Done(review_call[2])

C23_NonOwnerIsForbidden ==
    \A c \in Calls :
        (request[c].route = "manual" /\ request[c].user = "other")
        => /\ response[c].status = "403"
           /\ pc[c] = "idle"
           /\ ext[c] = << >>
           /\ result[c].kind = "none"
           /\ StoredBy(c) = {}

\* A manual trigger for another user's repository has been answered, while
\* the owner's trigger has gone on to the provider.
C23_Witness ==
    \E c, d \in Calls :
        /\ request[c].route = "manual"
        /\ request[c].repo = "found"
        /\ request[c].user = "other"
        /\ response[c].status = "403"
        /\ request[d].route = "manual"
        /\ request[d].user = "owner"
        /\ Did(d, "get_pr_details")

\* C25: a manual trigger that names a repository id for which the store
\* holds no repository is answered with NotFound (status 404), and inserts
\* no Review.
C25_UnknownRepositoryIsNotFound ==
    \A c \in Calls :
        (request[c].route = "manual" /\ request[c].repo \in {"missing", "invalid_id"})
        => /\ response[c].status = "404"
           /\ StoredBy(c) = {}

Asks(c) == {i \in 1..Len(ext[c]) : ext[c][i].op = "generate_content"}

\* C26: one run of the workflow goes once through analyze_files and then
\* once through summarize_review: the requests about files come in the
\* order of the files, none twice, before the one request for the summary
\* if there is one; among the files the loop has passed, exactly those that
\* are not removed and have a patch were asked about, once each; no request
\* follows a failed one for the same file or summary.
C26_OnePassOneRequestEach ==
    \A c \in Calls :
        /\ \A i, j \in Asks(c) :
              i < j => /\ ext[c][i].arg # 0
                       /\ ext[c][j].arg = 0 \/ ext[c][i].arg < ext[c][j].arg
        /\ \A k \in 1..Len(pr_files[c]) :
              k < file_idx[c]
              => AskedTimes(c, k) = (IF RemovedOrNoPatch(pr_files[c][k]) THEN 0 ELSE 1)
        /\ \A k \in 1..Len(pr_files[c]) : k >= file_idx[c] => AskedTimes(c, k) = 0
        /\ AskedTimes(c, 0) <= 1
        /\ AskedTimes(c, 0) = 1 => pc[c] \notin {"analyze_files", "summarize_review"}
        /\ pc[c] = "summarize_review" => file_idx[c] = Len(pr_files[c]) + 1

\* Two files were asked about, the first request failed, the request for
\* the summary failed, and the call went on to its end with three requests
\* in all.
C26_Witness ==
    \E c \in Calls :
        /\ Done(c)
        /\ Cardinality(Asks(c)) = 3
        /\ \E i \in Asks(c) : ext[c][i].arg = 1 /\ ~ext[c][i].ok
        /\ SummaryFailed(c)

\* The response holds a JSON object whose issues member is a list of at
\* least one issue.
CarriesIssues(resp) ==
    /\ ~resp.raises
    /\ resp.text.body.json
    /\ resp.text.body.isobj
    /\ resp.text.body.has_issues
    /\ resp.text.body.issues.type = "list"
    /\ resp.text.body.issues.items # << >>

\* C27: a file for which the capability returned an empty issues list, or
\* no issues, has no entry in the output of analyze_files, and the output
\* holds exactly the files for which at least one issue was returned, each
\* with the issues returned for it.  Stated for a response that is its
\* payload and nothing else, without markers around it.
C27_OutputIsExactlyFilesWithIssues ==
    (probe.stage = "parsed" /\ ~probe.resp.raises
        /\ probe.resp.text.open = "" /\ probe.resp.text.close = "")
    => /\ probe.out.append <=> CarriesIssues(probe.resp)
       /\ probe.out.append => probe.out.issues = probe.resp.text.body.issues

\* C28: a call of trigger_review with post_to_github false never calls the
\* comment-post operation and writes to the store exactly once, by the
\* insert; the Review it returns, and the stored one, have
\* posted_to_github false.
C28_NoPostWithoutFlag ==
    \A c \in Calls :
        (request[c].route # "none" /\ ~post_to_github[c])
        => /\ ~Did(c, "post_comment")
           /\ ~Did(c, "save")
           /\ Times(c, "insert") <= 1
           /\ pc[c] # "post_review_to_github"
           /\ result[c].kind = "returned"
                 => /\ Times(c, "insert") = 1
                    /\ Succeeded(c, "insert")
                    /\ ~review[c][1].agent_results[1].posted_to_github
                    /\ \A i \in StoredBy(c) :
                          ~reviews[i].agent_results[1].posted_to_github
                    /\ StoredBy(c) = {review[c][1].id}

\* A call with post_to_github false has returned its Review.
C28_Witness ==
    \E c \in Calls :
        /\ ~post_to_github[c]
        /\ result[c].kind = "returned"
        /\ Times(c, "insert") = 1
        /\ Len(ext[c]) >= 3

\* The five counts of a Review.
CountsOf(r) ==
    << r.issues_found, r.high_issues, r.medium_issues, r.low_issues,
       r.critical_issues >>

\* The per-file results of calls c and d hold the same lists of issues, in
\* some order of the files.
SameIssuesPermuted(c, d) ==
    /\ Len(analysis_results[c]) = Len(analysis_results[d])
    /\ \E f \in Permutations(1..Len(analysis_results[c])) :
          \A k \in 1..Len(analysis_results[c]) :
              analysis_results[d][k].issues = analysis_results[c][f[k]].issues

\* C29: the counts of the Review (issues_found, high, medium, low,
\* critical) depend on the issues returned for each file only, not on the
\* order of the files: two calls whose per-file results hold the same issue
\* lists in different file order build Reviews with the same five counts,
\* and the tally fails for both or for neither.
C29_CountsIgnoreFileOrder ==
    /\ (review[1] # << >> /\ review[2] # << >> /\ SameIssuesPermuted(1, 2))
          => CountsOf(review[1][1]) = CountsOf(review[2][1])
    /\ (pc[1] # "build_review" /\ pc[2] # "build_review")
          => result[1].kind = result[2].kind

\* Both Reviews are built; a high security issue was returned for the first
\* file of one call, which is the second file of the other, and a low issue
\* for the other file.
C29_Witness ==
    /\ review[1] # << >>
    /\ review[2] # << >>
    /\ Len(analysis_results[1]) = 2
    /\ analysis_results[1][1].issues # analysis_results[2][1].issues
    /\ analysis_results[1][1].issues = analysis_results[2][2].issues
    /\ review[1][1].critical_issues = 1
    /\ review[2][1].low_issues = 1

\* C30: a response that is a valid issues payload between code-fence markers
\* (three backquotes, with or without the word json, before it and three
\* backquotes after it) gives the file the same issues as the payload alone;
\* and no response, parsed or not, makes analyze_files raise.
C30_FencedPayloadParsesLikePlain ==
    (probe.stage = "parsed" /\ ~probe.resp.raises)
    => /\ ( /\ probe.resp.text.open \in {FenceJson, Fence}
            /\ probe.resp.text.close = Fence
            /\ CarriesIssues(probe.resp)
            /\ \A k \in 1..Len(probe.resp.text.body.issues.items) :
                  IssueError(probe.resp.text.body.issues.items[k]) = None )
          => probe.out = parse_response([probe.resp EXCEPT !.text.open = "",
                                                            !.text.close = ""])
       /\ probe.out.exc = None

\* How many issues the files before the f-th of results carry in all.
RECURSIVE RowsBefore(_, _)
RowsBefore(results, f) ==
    IF f <= 1 THEN 0
    ELSE RowsBefore(results, f - 1) + Len(ItemsOf(results[f - 1].issues))

\* C31: the code_quality_issues of every persisted Review hold exactly one
\* entry per issue of the per-file stage's output, in file order and then in
\* the order within the file, each with the filename it was reported for
\* and with the line, severity and category the capability returned; a line
\* is never renumbered (an issue without a line has none in its entry).
C31_IssuesAreCopiedInOrder ==
    \A i \in 1..Len(reviews) :
        LET results == analysis_results[review_call[i]]
            rows == reviews[i].agent_results[1].output.code_quality_issues
        IN /\ Len(rows) = RowsBefore(results, Len(results) + 1)
           /\ \A f \in 1..Len(results) :
                 LET items == ItemsOf(results[f].issues)
                 IN \A j \in 1..Len(items) :
                       LET row == rows[RowsBefore(results, f) + j]
                       IN /\ row.file = results[f].filename
                          /\ row.line = (IF items[j].line = Absent THEN None
                                         ELSE items[j].line)
                          /\ row.severity = items[j].severity
                          /\ row.category = items[j].category

\* A stored Review of two files with one issue each, the first reported at
\* line 7 and the second at line 3: two entries, in file order, with those
\* lines.
C31_Witness ==
    \E i \in 1..Len(reviews) :
        LET rows == reviews[i].agent_results[1].output.code_quality_issues
        IN /\ Len(analysis_results[review_call[i]]) = 2
           /\ Len(rows) = 2
           /\ rows[1].file # rows[2].file
           /\ rows[1].line = "7"
           /\ rows[2].line = "3"

\* The entries of rows whose category is security, in the order of rows.
RECURSIVE SecurityRows(_)
SecurityRows(rows) ==
    IF rows = << >> THEN << >>
    ELSE IF Head(rows).category = "security"
         THEN << Head(rows) >> \o SecurityRows(Tail(rows))
         ELSE SecurityRows(Tail(rows))

\* C32: in every persisted Review the vulnerabilities of the agent output
\* are exactly the entries of its code_quality_issues whose category is
\* security, in the same order.
C32_VulnerabilitiesAreSecurityIssues ==
    \A i \in 1..Len(reviews) :
        LET output == reviews[i].agent_results[1].output
        IN output.vulnerabilities = SecurityRows(output.code_quality_issues)

\* A stored Review with two issues of which only one, of severity medium,
\* is a security issue: one vulnerability.
C32_Witness ==
    \E i \in 1..Len(reviews) :
        LET output == reviews[i].agent_results[1].output
        IN /\ Len(output.code_quality_issues) = 2
           /\ Len(output.vulnerabilities) = 1
           /\ output.vulnerabilities[1].severity = "medium"

Triggered(c) == pc[c] # "idle"

\* C34: the webhook task calls trigger_review only for a recognized action
\* on a repository that is in the store, whose owner exists and whose
\* auto_review_on_pr is true; when one of these fails the task returns
\* without the call, and nothing is fetched, analysed, inserted or posted.
C34_WebhookGuardsComeFirst ==
    \A c \in Calls :
        request[c].route = "webhook"
        => LET passes == /\ request[c].action \in {"opened", "synchronize", "reopened"}
                         /\ request[c].repo = "found"
                         /\ request[c].user = "found"
                         /\ request[c].auto_review = "on"
           IN /\ Triggered(c) => passes
              /\ ~passes => /\ ~Triggered(c)
                            /\ response[c].status = "returned"
                            /\ ext[c] = << >>
                            /\ StoredBy(c) = {}

\* One delivery for a repository with auto_review_on_pr off has returned
\* with nothing done, another that passes the four tests has fetched.
C34_Witness ==
    \E c, d \in Calls :
        /\ request[c].route = "webhook"
        /\ request[c].auto_review = "off"
        /\ response[c].status = "returned"
        /\ ext[c] = << >>
        /\ request[d].route = "webhook"
        /\ request[d].auto_review = "on"
        /\ Did(d, "get_pr_details")

\* C35: process_pr_event never raises to the runner of background tasks:
\* whatever fails inside it, an error of trigger_review included, is caught
\* and printed, the task returns, and the event is not processed again (the
\* task enters trigger_review at most once and fetches at most once).
C35_WebhookTaskNeverRaises ==
    \A c \in Calls :
        request[c].route = "webhook"
        => /\ response[c].status \in {"none", "returned"}
           /\ (Done(c) /\ result[c].kind = "raised" /\ response[c] # NoResponse)
              => response[c] = [status |-> "returned",
                                detail |-> "Error processing PR event"]
           /\ Times(c, "get_pr_details") <= 1
           /\ Times(c, "get_pr_files") <= 1
           /\ response[c] # NoResponse => pc[c] \in {"idle", "done"}

\* A delivery whose trigger_review raised (the details were fetched, the
\* call ended with an exception) and whose task has returned all the same.
C35_Witness ==
    \E c \in Calls :
        /\ request[c].route = "webhook"
        /\ Succeeded(c, "get_pr_details")
        /\ result[c].kind = "raised"
        /\ response[c].status = "returned"
        /\ response[c].detail = "Error processing PR event"

\* C36: every call of trigger_review finishes in the end, with a Review
\* returned or an exception raised, provided each external call (fetch,
\* request to the capability, store write, comment post) returns or fails:
\* the loop over the files comes to its end and nothing is tried again.
C36_EveryCallFinishes ==
    \A c \in Calls :
        (pc[c] # "idle")
        ~> (pc[c] = "done" /\ result[c].kind \in {"returned", "raised"})

\* A call over two files, neither skipped, that asked the capability about
\* both, stored its Review and returned.
C36_Witness ==
    \E c \in Calls :
        /\ Done(c)
        /\ result[c].kind = "returned"
        /\ Len(pr_files[c]) = 2
        /\ AskedTimes(c, 1) = 1
        /\ AskedTimes(c, 2) = 1
        /\ StoredBy(c) # {}

====
